---- MODULE Spec2Model ----
(***************************************************************************)
(* A model of the aws-reporting-scripts reports: the CloudFormation        *)
(* stack-resource report (cfn_dump_resources.py, and its earlier copy at   *)
(* the top of the repository), the maintenance-window report               *)
(* (ssm_patching_audit.py), the CloudWatch alarm report                    *)
(* (cw_dump_alarms.py) and the instance/SSM-agent report                   *)
(* (ssm_agent_audit.py).                                                   *)
(*                                                                         *)
(* Every remote (boto3) call is a step whose answer the remote chooses: a  *)
(* page of items with or without a NextToken, a structured response, or a  *)
(* raised ClientError.  An exception that no except clause catches leaves  *)
(* main and ends the run.  The output is observed as the rows written for  *)
(* the item main is processing and the number of rows written per region.  *)
(***************************************************************************)
EXTENDS Integers, Sequences, FiniteSets, TLC

\* The number of paged listing calls one run may issue (a bound of the model).
MaxCalls == 3

----------------------------------------------------------------------------
\* Python values a generator keeps in next_token: True, False or a string.
PyTrue == "<True>"
PyFalse == "<False>"

\* The tokens the remote may hand out.
Tokens == {"t1", "t2"}

\* The regions describe_regions returns, in the remote's order.
RegionNames == <<"eu-west-1", "us-east-1">>

\* The reports (scripts) of the repository.
Reports == {"cfn", "cfn_old", "mw", "ssm", "alarm"}

\* The responses of a paged call whose items come under the key `field`:
\* with no 'NextToken' key, with an empty one, or with a token.
Responses(field, pages) ==
    {(field :> p) : p \in pages}
    \cup {(field :> p) @@ ("NextToken" :> t) : p \in pages, t \in Tokens \cup {""}}

----------------------------------------------------------------------------
\* The paginating generators (get_stacks, get_resources, get_instances,
\* get_maintenance_windows): the same loop in each.

\* `while next_token:` : True or a non-empty string.
Truthy(v) == v # PyFalse /\ v # ""

\* As CallArgs, had the call never been given the NextToken.
CallArgs_no_token(fn, client, arg, tok) ==
    [fn |-> fn, client |-> client, arg |-> arg, NextToken |-> <<>>]

\* The keyword arguments of a paged call: NextToken only `if next_token is not True`.
CallArgs(fn, client, arg, tok) ==
    [fn |-> fn, client |-> client, arg |-> arg,
     NextToken |-> IF tok # PyTrue THEN <<tok>> ELSE <<>>]

\* As NextTokenAfter, had the loop stopped after its first page.
NextTokenAfter_first_page(resp) == PyFalse

\* `if 'NextToken' in response: next_token = response['NextToken']`
\* `else: next_token = False`
NextTokenAfter(resp) ==
    IF "NextToken" \in DOMAIN resp THEN resp.NextToken ELSE PyFalse

\* As NewGen, had the cursor been kept from an earlier listing.
NewGen_persisted_cursor ==
    [next_token |-> "t1", buf |-> <<>>,
     ncall |-> 0, last_call |-> <<>>, last_resp |-> <<>>, got |-> {}, stale |-> FALSE,
     pages |-> <<>>, yielded |-> <<>>]

\* A generator.  Its state is next_token and buf (the items of the current
\* page the for loop has not yielded yet).  The other fields observe it: the
\* number of calls it issued, the arguments of the latest, the latest
\* response, the tokens it was given, whether the latest response gave a token
\* given before, the pages it received and the items it yielded.
NewGen ==
    [next_token |-> PyTrue, buf |-> <<>>,
     ncall |-> 0, last_call |-> <<>>, last_resp |-> <<>>, got |-> {}, stale |-> FALSE,
     pages |-> <<>>, yielded |-> <<>>]

\* No generator (or one that has ended).
NoGen == [NewGen EXCEPT !.next_token = PyFalse]

\* The loop has ended: nothing is left of the page and `while next_token` is false.
Exhausted(g) == g.buf = <<>> /\ ~Truthy(g.next_token)

\* As AtCall, had the next page been asked for ahead of the for loop.
AtCall_eager(g) == Truthy(g.next_token)

\* The loop is at `while next_token:` with a true next_token: it calls next.
AtCall(g) == g.buf = <<>> /\ Truthy(g.next_token)

\* The generator issues its call.
Call(g, args) == [g EXCEPT !.ncall = @ + 1, !.last_call = <<args>>]

\* The call returned resp, whose collection is `page`; the for loop will yield `items`.
Answer(g, resp, page, items) ==
    [g EXCEPT !.next_token = NextTokenAfter(resp),
              !.buf = items,
              !.last_resp = <<resp>>,
              !.got = IF "NextToken" \in DOMAIN resp THEN @ \cup {resp.NextToken} ELSE @,
              !.stale = "NextToken" \in DOMAIN resp /\ resp.NextToken \in g.got,
              !.pages = Append(@, page)]

\* `yield item`
Yield(g) == [g EXCEPT !.buf = Tail(@), !.yielded = Append(@, Head(g.buf))]

----------------------------------------------------------------------------
VARIABLES
    report,        \* the script that runs
    pc,            \* "start", "run", "done" (main returned), "failed" (an exception left main)
    err,           \* the exception that left main, "" when none
    region_list,   \* the regions main iterates
    ri,            \* index in region_list of the region being processed (0: none yet)
    gen,           \* the listing generator of the region being processed
    rgen,          \* cfn: the generator get_resources of the stack being processed
    item,          \* <<the item of the listing main is processing>>, <<>> when none
    at,            \* the statement of main's loop body that runs next ("list": the for)
    chain,         \* what main has gathered so far for the item
    calls,         \* the single-shot calls issued for the item
    rows,          \* the rows written for the item
    nrows,         \* the number of rows written, per region index
    ncalls,        \* paged listing calls issued in this run
    ec2_region,    \* the region of the client get_regions discovers with, "" before
    stderr         \* what the script has printed to sys.stderr

vars == <<report, pc, err, region_list, ri, gen, rgen, item, at, chain, calls, rows,
          nrows, ncalls, ec2_region, stderr>>

region == region_list[ri]

Init ==
    /\ report \in Reports
    /\ pc = "start"
    /\ err = ""
    /\ region_list = <<>>
    /\ ri = 0
    /\ gen = NoGen
    /\ rgen = NoGen
    /\ item = <<>>
    /\ at = "list"
    /\ chain = <<>>
    /\ calls = <<>>
    /\ rows = <<>>
    /\ nrows = [i \in 1..Len(RegionNames) |-> 0]
    /\ ncalls = 0
    /\ ec2_region = ""
    /\ stderr = <<>>

\* As Raise, had main caught the exception, reported it and gone on.
Raise_swallowed(e) ==
    /\ pc' = pc
    /\ err' = e

\* As Raise, had the failed call been caught and its loop gone on.
Raise_retried(e) ==
    /\ pc' = pc
    /\ err' = err

\* An exception leaves main: the run ends.
Raise(e) ==
    /\ pc' = "failed"
    /\ err' = e

\* output.writerow(row), in the region being processed.
Written(new_rows) ==
    nrows' = [nrows EXCEPT ![ri] = @ + Len(new_rows)]

\* main is back at its `for`: it is processing no item.
NoItem ==
    /\ item' = <<>>
    /\ chain' = <<>>
    /\ calls' = <<>>
    /\ rows' = <<>>

\* The default region of the environment: "" when none is configured
\* (boto3.client('ec2') raises NoRegionError).
DefaultRegions == {"", "eu-west-1"}

\* `try: boto3.client('ec2') except NoRegionError: boto3.client('ec2', region_name='us-east-1')`
ec2_client_region(default) == IF default = "" THEN "us-east-1" ELSE default

\* What ends the run when describe_regions fails: sys.exit(10) in helpers.py,
\* `raise err` in ssm_patching_audit.py.
discovery_failure == IF report = "mw" THEN "ClientError" ELSE "SystemExit(10)"

\* As get_regions, had a failed discovery fallen back to the fallback region.
get_regions_fallback_list ==
    /\ report \in {"cfn", "cfn_old", "mw"}
    /\ pc = "start"
    /\ \E default \in DefaultRegions :
          /\ ec2_region' = ec2_client_region(default)
          /\ \/ region_list' = RegionNames
             \/ region_list' = <<ec2_client_region(default)>>
    /\ pc' = "run"
    /\ UNCHANGED <<stderr, err, report, ri, gen, rgen, item, at, chain, calls, rows, nrows,
                   ncalls>>

\* get_regions (run by main's first `for region in get_regions()`): makes the
\* ec2 client, then describe_regions answers, or raises a ClientError, which is
\* printed to stderr and ends the run.
get_regions ==
    /\ report \in {"cfn", "cfn_old", "mw"}
    /\ pc = "start"
    /\ \E default \in DefaultRegions : ec2_region' = ec2_client_region(default)
    /\ \/ /\ region_list' = RegionNames
          /\ pc' = "run"
          /\ UNCHANGED <<err, stderr>>
       \/ /\ stderr' = Append(stderr, "ERROR: ClientError")
          /\ Raise(discovery_failure)
          /\ region_list' = region_list
    /\ UNCHANGED <<report, ri, gen, rgen, item, at, chain, calls, rows, nrows, ncalls>>

\* `for region in ...:` takes the next region and makes its client and its
\* listing generator (which has run nothing yet), or ends main after the last.
main_region ==
    /\ pc = "run"
    /\ at = "list"
    /\ Exhausted(gen)
    /\ Exhausted(rgen)
    /\ IF ri < Len(region_list)
          THEN /\ ri' = ri + 1
               /\ gen' = NewGen
               /\ pc' = pc
          ELSE /\ pc' = "done"
               /\ UNCHANGED <<ri, gen>>
    /\ NoItem
    /\ UNCHANGED <<ec2_region, stderr, report, err, region_list, rgen, at, nrows, ncalls>>

\* One turn of a listing generator's `while next_token:` up to its for loop:
\* the call fn(arg, [NextToken]) on the region's client, answered with one of
\* `answers` or a ClientError; an answer is a response, its collection (page)
\* and the items the for loop yields from it.
ListingCall(fn, arg, answers) ==
    /\ pc = "run"
    /\ at = "list"
    /\ Exhausted(rgen)
    /\ AtCall(gen)
    /\ ncalls < MaxCalls
    /\ ncalls' = ncalls + 1
    /\ LET called == Call(gen, CallArgs(fn, region, arg, gen.next_token))
       IN  \/ \E answer \in answers :
                 /\ gen' = Answer(called, answer.resp, answer.page, answer.items)
                 /\ UNCHANGED <<pc, err>>
           \/ /\ Raise("ClientError")
              /\ gen' = called
    /\ NoItem
    /\ UNCHANGED <<ec2_region, stderr, report, region_list, ri, rgen, at, nrows>>

----------------------------------------------------------------------------
\* cfn_dump_resources.py

Stack(n) == [StackId |-> "arn:stack/" \o n, StackName |-> n, StackStatus |-> "CREATE_COMPLETE"]

\* The pages list_stacks may return (the last in an order that is not sorted).
StackPages == {<<>>, <<Stack("s1")>>, <<Stack("s2"), Stack("s1")>>}

\* A stack resource with a physical resource, and one whose physical resource
\* was deleted outside of CloudFormation (no 'PhysicalResourceId' key).
ResourceLive == [LogicalResourceId |-> "Bucket", ResourceType |-> "AWS::S3::Bucket",
                 PhysicalResourceId |-> "bucket-1"]
ResourceGone == [LogicalResourceId |-> "Queue", ResourceType |-> "AWS::SQS::Queue"]

\* The pages list_stack_resources may return.
ResourcePages == {<<>>, <<ResourceLive>>, <<ResourceGone, ResourceLive>>}

StackSummaries(stack_list) == stack_list.StackSummaries
StackResourceSummaries(resource_list) == resource_list.StackResourceSummaries

\* get_stacks: one turn of `while next_token:` up to the for loop.
get_stacks ==
    /\ report \in {"cfn", "cfn_old"}
    /\ ListingCall("list_stacks", "StackStatusFilter",
                   {[resp |-> stack_list, page |-> StackSummaries(stack_list),
                     items |-> StackSummaries(stack_list)] :
                       stack_list \in Responses("StackSummaries", StackPages)})

\* main: `for stack in get_stacks(cfn_client):` takes a stack and makes the
\* generator get_resources(cfn_client, stack['StackId']).
main_stack ==
    /\ report = "cfn"
    /\ pc = "run"
    /\ Exhausted(rgen)
    /\ gen.buf # <<>>
    /\ gen' = Yield(gen)
    /\ item' = <<Head(gen.buf)>>
    /\ rgen' = NewGen
    /\ rows' = <<>>
    /\ UNCHANGED <<ec2_region, stderr, report, pc, err, region_list, ri, at, chain, calls, nrows, ncalls>>

\* get_resources: one turn of `while next_token:` up to the for loop.
get_resources ==
    /\ report = "cfn"
    /\ pc = "run"
    /\ AtCall(rgen)
    /\ ncalls < MaxCalls
    /\ ncalls' = ncalls + 1
    /\ LET called == Call(rgen, CallArgs("list_stack_resources", region,
                                         item[1].StackId, rgen.next_token))
       IN  \/ \E resource_list \in Responses("StackResourceSummaries", ResourcePages) :
                 /\ rgen' = Answer(called, resource_list,
                                   StackResourceSummaries(resource_list),
                                   StackResourceSummaries(resource_list))
                 /\ UNCHANGED <<pc, err>>
           \/ /\ Raise("ClientError")
              /\ rgen' = called
    /\ UNCHANGED <<ec2_region, stderr, report, region_list, ri, gen, item, at, chain, calls, rows, nrows>>

\* As physical_resource_id, had the KeyError left the field empty.
physical_resource_id_blank(resource) ==
    IF "PhysicalResourceId" \in DOMAIN resource
       THEN resource.PhysicalResourceId
       ELSE ""

\* The PhysicalResourceId field: the resource's, or "[Deleted]" on KeyError.
physical_resource_id(resource) ==
    IF "PhysicalResourceId" \in DOMAIN resource
       THEN resource.PhysicalResourceId
       ELSE "[Deleted]"

\* The header row.
cfn_header ==
    <<"Region", "StackName", "LogicalResourceId", "ResourceType", "PhysicalResourceId",
      "StackID", "StackStatus">>

\* The row main writes for a resource of a stack.
cfn_row(rgn, stk, resource) ==
    <<rgn, stk.StackName, resource.LogicalResourceId, resource.ResourceType,
      physical_resource_id(resource), stk.StackId, stk.StackStatus>>

\* main: `for resource in get_resources(...)`: takes a resource and writes its row.
main_resource ==
    /\ report = "cfn"
    /\ pc = "run"
    /\ rgen.buf # <<>>
    /\ rgen' = Yield(rgen)
    /\ rows' = Append(rows, cfn_row(region, item[1], Head(rgen.buf)))
    /\ Written(<<Head(rgen.buf)>>)
    /\ UNCHANGED <<ec2_region, stderr, report, pc, err, region_list, ri, gen, item, at, chain, calls, ncalls>>

----------------------------------------------------------------------------
\* cfn_dump_resources.py at the top of the repository: get_stacks is the same,
\* get_resources is `return ''` and the row is [region].

cfn_old_header ==
    <<"Region", "LogicalResourceId", "PhysicalResourceId", "ResourceType", "StackName",
      "StackID", "StackStatus">>

\* get_resources returns the empty string, which a for loop iterates as no item.
get_resources_old(stack_id) == <<>>

old_row(rgn) == <<rgn>>

\* main: `for stack in get_stacks(...)`: takes a stack and writes one row for
\* each element of get_resources(cfn_client, stack['StackId']).
main_stack_old ==
    /\ report = "cfn_old"
    /\ pc = "run"
    /\ gen.buf # <<>>
    /\ gen' = Yield(gen)
    /\ item' = <<Head(gen.buf)>>
    /\ LET new_rows == [i \in 1..Len(get_resources_old(Head(gen.buf).StackId)) |->
                           old_row(region)]
       IN  /\ rows' = new_rows
           /\ Written(new_rows)
    /\ UNCHANGED <<ec2_region, stderr, report, pc, err, region_list, ri, rgen, at, chain, calls, ncalls>>

----------------------------------------------------------------------------
\* ssm_patching_audit.py

\* The pages describe_maintenance_windows may return.
Window(n) == [WindowId |-> n, Name |-> "name-" \o n, Enabled |-> "true"]
WindowPages == {<<>>, <<Window("mw-1")>>, <<Window("mw-2"), Window("mw-1")>>}

\* What get_maintenance_window may return: with and without a ScheduleTimezone.
MaintWindowResponses ==
    {[Name |-> "patching", Schedule |-> "cron(0 3 ? * SUN *)", ScheduleTimezone |-> "UTC"],
     [Name |-> "patching", Schedule |-> "cron(0 3 ? * SUN *)"]}

\* What describe_maintenance_window_tasks may return: no task, one, two.
TaskListResponses ==
    {[Tasks |-> <<>>],
     [Tasks |-> <<[WindowTaskId |-> "task-1"]>>],
     [Tasks |-> <<[WindowTaskId |-> "task-1"], [WindowTaskId |-> "task-2"]>>]}

RunPatchBaseline(parameters) ==
    [RunCommand |-> [Parameters |-> parameters]]

\* What get_maintenance_window_task may return: a task registered to a window
\* target (with an Operation, with no Operation parameter, with no value for
\* it), to a target with an empty ID, to instances and no window target, to a
\* window target entry with no values, and to no target at all.
TaskResponses ==
    {[Targets |-> <<[Key |-> "WindowTargetIds", Values |-> <<"target-1", "target-2">>]>>,
      TaskArn |-> "AWS-RunPatchBaseline",
      TaskInvocationParameters |-> RunPatchBaseline([Operation |-> <<"Install">>])],
     [Targets |-> <<[Key |-> "InstanceIds", Values |-> <<"i-1">>],
                    [Key |-> "WindowTargetIds", Values |-> <<"target-1">>]>>,
      TaskArn |-> "AWS-RunPatchBaseline",
      TaskInvocationParameters |-> RunPatchBaseline([RebootOption |-> <<"NoReboot">>])],
     [Targets |-> <<[Key |-> "WindowTargetIds", Values |-> <<"target-1">>]>>,
      TaskArn |-> "AWS-RunPatchBaseline",
      TaskInvocationParameters |-> RunPatchBaseline([Operation |-> <<>>])],
     [Targets |-> <<[Key |-> "WindowTargetIds", Values |-> <<"">>]>>,
      TaskArn |-> "arn:aws:lambda:fn",
      TaskInvocationParameters |-> [Lambda |-> [Qualifier |-> "1"]]],
     [Targets |-> <<[Key |-> "InstanceIds", Values |-> <<"i-1">>]>>,
      TaskArn |-> "AWS-RunPatchBaseline",
      TaskInvocationParameters |-> RunPatchBaseline([Operation |-> <<"Scan">>])],
     [Targets |-> <<[Key |-> "WindowTargetIds", Values |-> <<>>]>>,
      TaskArn |-> "AWS-RunPatchBaseline",
      TaskInvocationParameters |-> RunPatchBaseline([Operation |-> <<"Scan">>])],
     [Targets |-> <<>>,
      TaskArn |-> "AWS-RunPatchBaseline",
      TaskInvocationParameters |-> RunPatchBaseline([Operation |-> <<"Scan">>])]}

\* What describe_maintenance_window_targets may return: no target, a target
\* tagged with a Patch Group (first, or behind another tag), one with an empty
\* Patch Group value list, one with no 'Targets' key, one tagged otherwise, and
\* two targets of which only the second has a Patch Group.
TargetListResponses ==
    {[Targets |-> <<>>],
     [Targets |-> <<[WindowTargetId |-> "target-1",
                     Targets |-> <<[Key |-> "tag:Env", Values |-> <<"prod">>],
                                   [Key |-> "tag:Patch Group", Values |-> <<"pg-1", "pg-2">>]>>]>>],
     [Targets |-> <<[WindowTargetId |-> "target-1",
                     Targets |-> <<[Key |-> "tag:Patch Group", Values |-> <<>>]>>]>>],
     [Targets |-> <<[WindowTargetId |-> "target-1"]>>],
     [Targets |-> <<[WindowTargetId |-> "target-1",
                     Targets |-> <<[Key |-> "tag:Env", Values |-> <<"prod">>]>>]>>],
     [Targets |-> <<[WindowTargetId |-> "target-1", Targets |-> <<>>],
                    [WindowTargetId |-> "target-2",
                     Targets |-> <<[Key |-> "tag:Patch Group", Values |-> <<"pg-2">>]>>]>>]}

\* What get_patch_baseline_for_patch_group may return.
BaselineForGroupResponses == {[BaselineId |-> "pb-1"], [BaselineId |-> ""]}

Rule(filters) ==
    [PatchFilterGroup |-> [PatchFilters |-> filters], ApproveAfterDays |-> "7"]

FilterProduct == [Key |-> "PRODUCT", Values |-> <<"WindowsServer2019">>]
FilterSeverity == [Key |-> "MSRC_SEVERITY", Values |-> <<"Critical", "Important">>]
FilterClass == [Key |-> "CLASSIFICATION", Values |-> <<"SecurityUpdates", "CriticalUpdates">>]

\* What get_patch_baseline may return: a baseline with both filters, one with
\* no approval rule, one with no MSRC_SEVERITY filter, one with no
\* CLASSIFICATION filter.  (ApproveAfterDays is a number, written as its digits.)
BaselineResponses ==
    {[Name |-> "win", OperatingSystem |-> "WINDOWS",
      ApprovalRules |-> [PatchRules |-> <<Rule(<<FilterProduct, FilterSeverity, FilterClass>>),
                                          Rule(<<FilterClass>>)>>]],
     [Name |-> "empty", OperatingSystem |-> "WINDOWS",
      ApprovalRules |-> [PatchRules |-> <<>>]],
     [Name |-> "linux", OperatingSystem |-> "AMAZON_LINUX_2",
      ApprovalRules |-> [PatchRules |-> <<Rule(<<FilterProduct, FilterClass>>)>>]],
     [Name |-> "sev", OperatingSystem |-> "WINDOWS",
      ApprovalRules |-> [PatchRules |-> <<Rule(<<FilterSeverity>>)>>]]}

\* The account sts get_caller_identity names.
Account == "123456789012"

\* A local of main that no statement has assigned yet.
Unset == "<unset>"

\* `next(item for item in items if item['Key'] == key)`: <<the first such item>>,
\* or <<>> where next raises StopIteration.
NextWithKey(items, key) ==
    LET hits == {i \in 1..Len(items) : items[i].Key = key}
    IN  IF hits = {} THEN <<>>
        ELSE <<items[CHOOSE i \in hits : \A j \in hits : i <= j]>>

\* ",".join(values)
RECURSIVE Join(_, _)
Join(sep, values) ==
    IF values = <<>> THEN ""
    ELSE IF Len(values) = 1 THEN values[1]
    ELSE values[1] \o sep \o Join(sep, Tail(values))

\* What a function of the script does with a response: it returns a value
\* (exc = "") or an exception leaves it.
Return(v) == [exc |-> "", val |-> v]
Throw(e) == [exc |-> e]

\* get_maint_window_info, after its call.
maint_window_info_of(maint_window) ==
    Return(<<maint_window.Name,
             maint_window.Schedule,
             IF "ScheduleTimezone" \in DOMAIN maint_window
                THEN maint_window.ScheduleTimezone ELSE "">>)

\* get_maint_window_task, after its call.
task_id_of(task_list) ==
    Return(IF Len(task_list.Tasks) >= 1 THEN task_list.Tasks[1].WindowTaskId ELSE "")

\* The Operation of a task: '' on KeyError or IndexError.
task_operation(maint_window_task) ==
    LET tip == maint_window_task.TaskInvocationParameters
    IN  IF "RunCommand" \notin DOMAIN tip THEN ""
        ELSE IF "Parameters" \notin DOMAIN tip.RunCommand THEN ""
        ELSE IF "Operation" \notin DOMAIN tip.RunCommand.Parameters THEN ""
        ELSE IF tip.RunCommand.Parameters.Operation = <<>> THEN ""
        ELSE tip.RunCommand.Parameters.Operation[1]

\* get_task_info, after its call (task_id is not empty).
task_info_of(maint_window_task) ==
    LET hit == NextWithKey(maint_window_task.Targets, "WindowTargetIds")
    IN  IF hit = <<>> THEN Throw("StopIteration")
        ELSE IF hit[1].Values = <<>> THEN Throw("IndexError")
        ELSE Return(<<hit[1].Values[1],
                      maint_window_task.TaskArn,
                      task_operation(maint_window_task)>>)

\* get_target_patch_tag, after its call (target_id is not empty).
patch_tag_of(target_list) ==
    IF target_list.Targets = <<>> THEN Return("")
    ELSE IF "Targets" \notin DOMAIN target_list.Targets[1] THEN Return("")
    ELSE LET hit == NextWithKey(target_list.Targets[1].Targets, "tag:Patch Group")
         IN  IF hit = <<>> THEN Throw("StopIteration")
             ELSE IF hit[1].Values = <<>> THEN Return("")
             ELSE Return(hit[1].Values[1])

\* get_baseline_id, after its call (patch_tag is not empty).
baseline_id_of(baseline) == Return(baseline.BaselineId)

\* get_baseline_info, after its call (baseline_id is not empty).
baseline_info_of(baseline) ==
    LET rules == baseline.ApprovalRules.PatchRules
    IN  IF rules = <<>> THEN Throw("IndexError")
        ELSE LET patch_filters == rules[1].PatchFilterGroup.PatchFilters
                 sev == NextWithKey(patch_filters, "MSRC_SEVERITY")
                 class == NextWithKey(patch_filters, "CLASSIFICATION")
             IN  IF sev = <<>> THEN Throw("StopIteration")
                 ELSE IF sev[1].Values = <<>> THEN Throw("IndexError")
                 ELSE IF class = <<>> THEN Throw("StopIteration")
                 ELSE Return(<<baseline.Name,
                               baseline.OperatingSystem,
                               sev[1].Values[1],
                               Join(",", class[1].Values),
                               rules[1].ApproveAfterDays>>)

\* The row main writes for a maintenance window.
mw_row(rgn, maint_window_id, c) ==
    <<Account, rgn, maint_window_id,
      c.maint_window_info[1], c.maint_window_info[2], c.maint_window_info[3],
      c.task_id, c.patch_tag, c.task_info[2], c.task_info[3], c.baseline_id,
      c.baseline_info[1], c.baseline_info[2], c.baseline_info[3],
      c.baseline_info[4], c.baseline_info[5]>>

\* The header row.
mw_header ==
    <<"Account", "Region", "MW ID", "MW Name", "MW Schedule", "MW TZ", "Task 1 ID",
      "Patch Group", "Task", "Operation", "Baseline", "Baseline Name", "OS",
      "Patch Filter (MSRC Sev)", "Patch Filter (Class)", "Approval Delay">>

WindowIdentities(maint_window_list) == maint_window_list.WindowIdentities

\* `for window in maint_window_list['WindowIdentities']: yield window['WindowId']`
WindowIds(maint_window_list) ==
    [i \in 1..Len(maint_window_list.WindowIdentities) |->
        maint_window_list.WindowIdentities[i].WindowId]

\* get_maintenance_windows: one turn of `while next_token:` up to the for loop.
get_maintenance_windows ==
    /\ report = "mw"
    /\ ListingCall("describe_maintenance_windows", "Filters",
                   {[resp |-> maint_window_list, page |-> WindowIdentities(maint_window_list),
                     items |-> WindowIds(maint_window_list)] :
                       maint_window_list \in Responses("WindowIdentities", WindowPages)})

\* main: `for maint_window_id in get_maintenance_windows(ssm_client):` takes a window.
main_window ==
    /\ report = "mw"
    /\ pc = "run"
    /\ at = "list"
    /\ gen.buf # <<>>
    /\ gen' = Yield(gen)
    /\ item' = <<Head(gen.buf)>>
    /\ at' = "get_maint_window_info"
    /\ chain' = [maint_window_info |-> <<Unset, Unset, Unset>>,
                 task_id |-> Unset,
                 task_info |-> <<Unset, Unset, Unset>>,
                 patch_tag |-> Unset,
                 baseline_id |-> Unset,
                 baseline_info |-> <<Unset, Unset, Unset, Unset, Unset>>]
    /\ calls' = <<>>
    /\ rows' = <<>>
    /\ UNCHANGED <<ec2_region, stderr, report, pc, err, region_list, ri, rgen, nrows, ncalls>>

\* A statement `name = f(...)` of main's loop body: with `call` = <<>> f issues
\* no call and returns `skipped`; otherwise it issues the call, which raises a
\* ClientError or is answered, and `outcomes` is what f does with the answers.
Gather(name, then, call, outcomes, skipped) ==
    /\ pc = "run"
    /\ at = name
    /\ calls' = calls \o call
    /\ \/ /\ call = <<>>
          /\ chain' = [chain EXCEPT ![then[1]] = skipped]
          /\ at' = then[2]
          /\ UNCHANGED <<pc, err>>
       \/ /\ call # <<>>
          /\ \E out \in outcomes :
                IF out.exc = ""
                   THEN /\ chain' = [chain EXCEPT ![then[1]] = out.val]
                        /\ at' = then[2]
                        /\ UNCHANGED <<pc, err>>
                   ELSE /\ Raise(out.exc)
                        /\ UNCHANGED <<chain, at>>
       \/ /\ call # <<>>
          /\ Raise("ClientError")
          /\ UNCHANGED <<chain, at>>
    /\ UNCHANGED <<ec2_region, stderr, report, region_list, ri, gen, rgen, item, rows, nrows, ncalls>>

\* The call each function of the chain issues, <<>> where its `if` skips it.
maint_window_info_call(maint_window_id) ==
    <<[fn |-> "get_maintenance_window", arg |-> maint_window_id]>>

maint_window_task_call(maint_window_id) ==
    <<[fn |-> "describe_maintenance_window_tasks", arg |-> maint_window_id]>>

\* `if task_id:`
task_info_call(task_id) ==
    IF task_id # "" THEN <<[fn |-> "get_maintenance_window_task", arg |-> task_id]>> ELSE <<>>

\* `if target_id:`
patch_tag_call(target_id) ==
    IF target_id # ""
       THEN <<[fn |-> "describe_maintenance_window_targets", arg |-> target_id]>>
       ELSE <<>>

\* As baseline_id_call, without the `if patch_tag:`.
baseline_id_call_always(patch_tag) ==
    <<[fn |-> "get_patch_baseline_for_patch_group", arg |-> patch_tag]>>

\* `if patch_tag:`
baseline_id_call(patch_tag) ==
    IF patch_tag # ""
       THEN <<[fn |-> "get_patch_baseline_for_patch_group", arg |-> patch_tag]>>
       ELSE <<>>

\* `if baseline_id:`
baseline_info_call(baseline_id) ==
    IF baseline_id # "" THEN <<[fn |-> "get_patch_baseline", arg |-> baseline_id]>> ELSE <<>>

get_maint_window_info ==
    /\ report = "mw"
    /\ Gather("get_maint_window_info", <<"maint_window_info", "get_maint_window_task">>,
              maint_window_info_call(item[1]),
              {maint_window_info_of(maint_window) : maint_window \in MaintWindowResponses},
              <<"", "", "">>)

get_maint_window_task ==
    /\ report = "mw"
    /\ Gather("get_maint_window_task", <<"task_id", "get_task_info">>,
              maint_window_task_call(item[1]),
              {task_id_of(task_list) : task_list \in TaskListResponses},
              "")

get_task_info ==
    /\ report = "mw"
    /\ Gather("get_task_info", <<"task_info", "get_target_patch_tag">>,
              task_info_call(chain.task_id),
              {task_info_of(maint_window_task) : maint_window_task \in TaskResponses},
              <<"", "", "">>)

get_target_patch_tag ==
    /\ report = "mw"
    /\ Gather("get_target_patch_tag", <<"patch_tag", "get_baseline_id">>,
              patch_tag_call(chain.task_info[1]),
              {patch_tag_of(target_list) : target_list \in TargetListResponses},
              "")

get_baseline_id ==
    /\ report = "mw"
    /\ Gather("get_baseline_id", <<"baseline_id", "get_baseline_info">>,
              baseline_id_call(chain.patch_tag),
              {baseline_id_of(baseline) : baseline \in BaselineForGroupResponses},
              "")

get_baseline_info ==
    /\ report = "mw"
    /\ Gather("get_baseline_info", <<"baseline_info", "writerow">>,
              baseline_info_call(chain.baseline_id),
              {baseline_info_of(baseline) : baseline \in BaselineResponses},
              <<"", "", "", "", "">>)

\* main: output.writerow([...]), after sts get_caller_identity answers (or
\* raises a ClientError).
main_window_row ==
    /\ report = "mw"
    /\ pc = "run"
    /\ at = "writerow"
    /\ calls' = Append(calls, [fn |-> "get_caller_identity", arg |-> ""])
    /\ \/ /\ rows' = <<mw_row(region, item[1], chain)>>
          /\ Written(<<1>>)
          /\ at' = "list"
          /\ UNCHANGED <<pc, err>>
       \/ /\ Raise("ClientError")
          /\ UNCHANGED <<rows, nrows, at>>
    /\ UNCHANGED <<ec2_region, stderr, report, region_list, ri, gen, rgen, item, chain, ncalls>>

----------------------------------------------------------------------------
\* helpers.get_region_list / helpers.get_region, which ssm_agent_audit.py and
\* cw_dump_alarms.py call: every region of the account (--region all), or the
\* one region asked for; a failure of the discovery ends the run.
get_region_list ==
    /\ report \in {"ssm", "alarm"}
    /\ pc = "start"
    /\ \/ /\ region_list' \in {RegionNames, <<RegionNames[1]>>}
          /\ pc' = "run"
          /\ err' = err
       \/ /\ Raise("ClientError")
          /\ region_list' = region_list
    /\ UNCHANGED <<ec2_region, stderr, report, ri, gen, rgen, item, at, chain, calls, rows, nrows, ncalls>>

----------------------------------------------------------------------------
\* ssm_agent_audit.py

ssm_header ==
    <<"Region", "InstanceID", "Name", "EC2Platform", "SSMPingStatus", "SSMAgentVersion",
      "SSMPlatformType", "SSMPlatformName", "SSMPlatformVersion">>

\* Instances: tagged with a Name (behind another tag) on Windows, with no tag
\* and no Platform, and tagged without a Name.
InstanceNamed ==
    [InstanceId |-> "i-1", Platform |-> "windows",
     Tags |-> <<[Key |-> "Env", Value |-> "prod"], [Key |-> "Name", Value |-> "web"]>>]
InstanceBare == [InstanceId |-> "i-2"]
InstanceTagged == [InstanceId |-> "i-3", Tags |-> <<[Key |-> "Env", Value |-> "dev"]>>]

\* The pages (lists of reservations) describe_instances may return.
ReservationPages ==
    {<<>>,
     <<[Instances |-> <<InstanceNamed>>]>>,
     <<[Instances |-> <<InstanceTagged, InstanceBare>>], [Instances |-> <<>>],
       [Instances |-> <<InstanceNamed>>]>>}

SsmInfo(n) ==
    [PingStatus |-> "Online", AgentVersion |-> "3.0." \o n, PlatformType |-> "Linux",
     PlatformName |-> "Amazon Linux", PlatformVersion |-> n]

\* What describe_instance_information may return: no entry, one, two.
InstanceInformationResponses ==
    {[InstanceInformationList |-> <<>>],
     [InstanceInformationList |-> <<SsmInfo("1")>>],
     [InstanceInformationList |-> <<SsmInfo("2"), SsmInfo("1")>>]}

Reservations(instance_list) == instance_list.Reservations

\* `for reservation in instance_list['Reservations']:`
\* `    for instance in reservation['Instances']: yield instance`
RECURSIVE InstancesOf(_)
InstancesOf(reservations) ==
    IF reservations = <<>> THEN <<>>
    ELSE Head(reservations).Instances \o InstancesOf(Tail(reservations))

Instances(instance_list) == InstancesOf(instance_list.Reservations)

\* get_instances: one turn of `while next_token:` up to the for loops.
get_instances ==
    /\ report = "ssm"
    /\ ListingCall("describe_instances", "Filters",
                   {[resp |-> instance_list, page |-> Reservations(instance_list),
                     items |-> Instances(instance_list)] :
                       instance_list \in Responses("Reservations", ReservationPages)})

\* The value of the last 'Name' tag among tags, `name` when there is none.
RECURSIVE LastName(_, _)
LastName(tags, name) ==
    IF tags = <<>> THEN name
    ELSE LastName(Tail(tags), IF Head(tags).Key = "Name" THEN Head(tags).Value ELSE name)

get_instance_name(instance) ==
    IF "Tags" \in DOMAIN instance THEN LastName(instance.Tags, "") ELSE ""

\* As get_instance_platform, had a missing Platform been written as None.
get_instance_platform_none(instance) ==
    IF "Platform" \in DOMAIN instance THEN instance.Platform ELSE "None"

get_instance_platform(instance) ==
    IF "Platform" \in DOMAIN instance THEN instance.Platform ELSE ""

\* As instance_ssm_info_of, had the last entry been taken.
instance_ssm_info_last(response) ==
    LET ssm_information == response.InstanceInformationList
        n == Len(ssm_information)
    IN  IF ssm_information # <<>>
           THEN [ping_status |-> ssm_information[n].PingStatus,
                 agent_version |-> ssm_information[n].AgentVersion,
                 platform_type |-> ssm_information[n].PlatformType,
                 platform_name |-> ssm_information[n].PlatformName,
                 platform_version |-> ssm_information[n].PlatformVersion]
           ELSE [ping_status |-> "", agent_version |-> "", platform_type |-> "",
                 platform_name |-> "", platform_version |-> ""]

\* get_instance_ssm_info, after its call.
instance_ssm_info_of(response) ==
    LET ssm_information == response.InstanceInformationList
    IN  IF ssm_information # <<>>
           THEN [ping_status |-> ssm_information[1].PingStatus,
                 agent_version |-> ssm_information[1].AgentVersion,
                 platform_type |-> ssm_information[1].PlatformType,
                 platform_name |-> ssm_information[1].PlatformName,
                 platform_version |-> ssm_information[1].PlatformVersion]
           ELSE [ping_status |-> "", agent_version |-> "", platform_type |-> "",
                 platform_name |-> "", platform_version |-> ""]

\* As ssm_row, had the SSM fields been left out for an instance SSM does not know.
ssm_row_partial(rgn, instance, instance_ssm_info) ==
    IF instance_ssm_info.ping_status = ""
       THEN <<rgn, instance.InstanceId>>
       ELSE <<rgn, instance.InstanceId, get_instance_name(instance),
              get_instance_platform(instance),
              instance_ssm_info.ping_status, instance_ssm_info.agent_version,
              instance_ssm_info.platform_type, instance_ssm_info.platform_name,
              instance_ssm_info.platform_version>>

\* The row main writes for an instance.
ssm_row(rgn, instance, instance_ssm_info) ==
    <<rgn, instance.InstanceId, get_instance_name(instance),
      get_instance_platform(instance),
      instance_ssm_info.ping_status, instance_ssm_info.agent_version,
      instance_ssm_info.platform_type, instance_ssm_info.platform_name,
      instance_ssm_info.platform_version>>

\* main: `for instance in get_instances(ec2_client):` takes an instance, asks
\* SSM about it and writes its row.
main_instance ==
    /\ report = "ssm"
    /\ pc = "run"
    /\ gen.buf # <<>>
    /\ gen' = Yield(gen)
    /\ item' = <<Head(gen.buf)>>
    /\ calls' = <<[fn |-> "describe_instance_information", arg |-> Head(gen.buf).InstanceId]>>
    /\ \/ \E response \in InstanceInformationResponses :
             /\ chain' = [instance_ssm_info |-> instance_ssm_info_of(response),
                          response |-> response]
             /\ rows' = <<ssm_row(region, Head(gen.buf), instance_ssm_info_of(response))>>
             /\ Written(<<1>>)
             /\ UNCHANGED <<pc, err>>
       \/ /\ Raise("ClientError")
          /\ chain' = <<>>
          /\ rows' = <<>>
          /\ UNCHANGED nrows
    /\ UNCHANGED <<ec2_region, stderr, report, region_list, ri, rgen, at, ncalls>>

----------------------------------------------------------------------------
\* cw_dump_alarms.py

alarm_header ==
    <<"Account", "Region", "Name", "Description", "Metric", "Stat", "Op", "Thresh",
      "EvalPeriods", "Period", "Dimensions", "Action0", "Action0 SNS DisplayName",
      "Action0 SNS Subscriptions", "Action1", "Action1 SNS DisplayName",
      "Action1 SNS Subscriptions">>

\* Alarm actions: SNS topics and an action that is no SNS topic.
TopicOps == "arn:aws:sns:eu-west-1:123456789012:ops"
TopicDev == "arn:aws:sns:eu-west-1:123456789012:dev"
TopicAll == "arn:aws:sns:eu-west-1:123456789012:all"
ScalingPolicy == "arn:aws:autoscaling:eu-west-1:123456789012:scalingPolicy:up"

Topics == {TopicOps, TopicDev, TopicAll}

\* What get_topic_attributes returns for a topic: with or without a DisplayName.
TopicAttributes(topic) ==
    IF topic = TopicOps THEN [Attributes |-> [TopicArn |-> topic, DisplayName |-> "Ops"]]
    ELSE IF topic = TopicDev THEN [Attributes |-> [TopicArn |-> topic]]
    ELSE [Attributes |-> [TopicArn |-> topic, DisplayName |-> "Everyone"]]

\* The subscriptions list_subscriptions_by_topic returns for a topic, page by page.
SubscriptionPages(topic) ==
    IF topic = TopicOps
       THEN <<<<[Protocol |-> "email", Endpoint |-> "ops@example.com"]>>,
              <<[Protocol |-> "sms", Endpoint |-> "+15550100"]>>>>
    ELSE IF topic = TopicDev
       THEN <<<<[Protocol |-> "https", Endpoint |-> "https://example.com/hook"]>>>>
    ELSE <<<<>>>>

\* The alarms of the account, which differ in their actions (and in whether
\* they have a description, a known statistic and operator, and dimensions).
Alarm(name, actions) ==
    [AlarmName |-> name, AlarmDescription |-> "about " \o name, MetricName |-> "CPUUtilization",
     Statistic |-> "Average", ComparisonOperator |-> "GreaterThanThreshold",
     Threshold |-> "80.0", EvaluationPeriods |-> "3", Period |-> "300",
     Dimensions |-> <<[Name |-> "InstanceId", Value |-> "i-1"],
                      [Name |-> "Device", Value |-> "xvda"]>>,
     AlarmActions |-> actions]

AlarmPlain(name, actions) ==
    [AlarmName |-> name, MetricName |-> "Errors",
     Statistic |-> "Sum", ComparisonOperator |-> "LessThanLowerOrGreaterThanUpperThreshold",
     Threshold |-> "1.0", EvaluationPeriods |-> "1", Period |-> "60",
     Dimensions |-> <<>>,
     AlarmActions |-> actions]

\* The pages describe_alarms may return.
AlarmPages ==
    {<<>>,
     <<AlarmPlain("none", <<>>), Alarm("one-sns", <<TopicOps>>)>>,
     <<Alarm("one-other", <<ScalingPolicy>>), AlarmPlain("two-sns", <<TopicOps, TopicDev>>)>>,
     <<Alarm("sns-other", <<TopicDev, ScalingPolicy>>),
       Alarm("other-sns", <<ScalingPolicy, TopicOps>>)>>,
     <<Alarm("three", <<ScalingPolicy, ScalingPolicy, TopicOps>>),
       Alarm("three-sns", <<TopicAll, TopicOps, TopicDev>>)>>}

MetricAlarms(response) == response.MetricAlarms

\* helpers.get_items(client, function='describe_alarms', item_name='MetricAlarms'):
\* the paginator, one call up to its for loop.
get_items ==
    /\ report = "alarm"
    /\ ListingCall("describe_alarms", "",
                   {[resp |-> response, page |-> MetricAlarms(response),
                     items |-> MetricAlarms(response)] :
                       response \in Responses("MetricAlarms", AlarmPages)})

\* `sub in s`
Contains(s, sub) ==
    \E i \in 1..(Len(s) - Len(sub) + 1) : SubSeq(s, i, i + Len(sub) - 1) = sub

pretty_statistic(stat) ==
    IF stat = "Average" THEN "avg"
    ELSE IF stat = "Maximum" THEN "max"
    ELSE IF stat = "Minimum" THEN "min"
    ELSE stat

pretty_operator(operator) ==
    IF operator = "GreaterThanOrEqualToThreshold" THEN ">="
    ELSE IF operator = "GreaterThanThreshold" THEN ">"
    ELSE IF operator = "LessThanOrEqualToThreshold" THEN "<="
    ELSE IF operator = "LessThanThreshold" THEN "<"
    ELSE operator

\* ','.join(['{}={}'.format(dimension['Name'], dimension['Value']) for dimension in ...])
dimensions_of(alarm) ==
    Join(",", [i \in 1..Len(alarm.Dimensions) |->
                  alarm.Dimensions[i].Name \o "=" \o alarm.Dimensions[i].Value])

\* As alarm_action, had a missing action been left empty.
alarm_action_empty(alarm, k) ==
    IF Len(alarm.AlarmActions) > k THEN alarm.AlarmActions[k + 1] ELSE ""

\* `try: action = alarm['AlarmActions'][k] except IndexError: action = "No action"`
\* (k counted from 0).
alarm_action(alarm, k) ==
    IF Len(alarm.AlarmActions) > k THEN alarm.AlarmActions[k + 1] ELSE "No action"

\* get_topic_name, after its call.
topic_name_of(response) ==
    IF "DisplayName" \in DOMAIN response.Attributes
       THEN response.Attributes.DisplayName ELSE ""

RECURSIVE Flatten(_)
Flatten(pages) ==
    IF pages = <<>> THEN <<>> ELSE Head(pages) \o Flatten(Tail(pages))

\* ','.join(['{}: {}'.format(subscription['Protocol'], subscription['Endpoint'])
\*           for subscription in helpers.get_items(..., TopicArn=topic)])
subscriptions_of(topic) ==
    LET subs == Flatten(SubscriptionPages(topic))
    IN  Join(",", [i \in 1..Len(subs) |-> subs[i].Protocol \o ": " \o subs[i].Endpoint])

\* The SNS calls main issues for an alarm's two actions, in order.
sns_calls(action0, action1) ==
    (IF Contains(action0, "arn:aws:sns")
        THEN <<[fn |-> "get_topic_attributes", arg |-> action0],
               [fn |-> "list_subscriptions_by_topic", arg |-> action0]>>
        ELSE <<>>)
    \o (IF Contains(action1, "arn:aws:sns")
           THEN <<[fn |-> "list_subscriptions_by_topic", arg |-> action0]>>
           ELSE <<>>)

\* The four SNS fields main computes for an alarm's two actions:
\* action0_sns_displayname, action0_sns_subscriptions, action1_sns_displayname,
\* action1_sns_subscriptions.
sns_fields(action0, action1) ==
    LET displayname0 == IF Contains(action0, "arn:aws:sns")
                           THEN topic_name_of(TopicAttributes(action0)) ELSE ""
        subscriptions0 == IF Contains(action1, "arn:aws:sns")
                             THEN subscriptions_of(action0)
                             ELSE IF Contains(action0, "arn:aws:sns")
                                     THEN subscriptions_of(action0) ELSE ""
    IN  <<displayname0, subscriptions0, "", "">>

\* The row main writes for an alarm.
alarm_row(rgn, alarm) ==
    LET action0 == alarm_action(alarm, 0)
        action1 == alarm_action(alarm, 1)
        sns == sns_fields(action0, action1)
    IN  <<Account, rgn, alarm.AlarmName,
          IF "AlarmDescription" \in DOMAIN alarm THEN alarm.AlarmDescription ELSE "",
          alarm.MetricName, pretty_statistic(alarm.Statistic),
          pretty_operator(alarm.ComparisonOperator), alarm.Threshold,
          alarm.EvaluationPeriods, alarm.Period, dimensions_of(alarm),
          action0, sns[1], sns[2], action1, sns[3], sns[4]>>

\* main: `for alarm in helpers.get_items(...)`: takes an alarm, looks its SNS
\* actions up and writes its row.  A call with a TopicArn that is no SNS
\* topic is refused by the remote (a ClientError), and any call may fail.
main_alarm ==
    /\ report = "alarm"
    /\ pc = "run"
    /\ gen.buf # <<>>
    /\ gen' = Yield(gen)
    /\ item' = <<Head(gen.buf)>>
    /\ chain' = <<>>
    /\ LET alarm == Head(gen.buf)
           sns == sns_calls(alarm_action(alarm, 0), alarm_action(alarm, 1))
       IN  /\ calls' = sns
           /\ \/ /\ \A i \in 1..Len(sns) : sns[i].arg \in Topics
                 /\ rows' = <<alarm_row(region, alarm)>>
                 /\ Written(<<1>>)
                 /\ UNCHANGED <<pc, err>>
              \/ /\ sns # <<>>
                 /\ Raise("ClientError")
                 /\ rows' = <<>>
                 /\ UNCHANGED nrows
    /\ UNCHANGED <<ec2_region, stderr, report, region_list, ri, rgen, at, ncalls>>

----------------------------------------------------------------------------
Next ==
    \/ get_regions
    \/ main_region
    \/ get_stacks
    \/ main_stack
    \/ get_resources
    \/ main_resource
    \/ main_stack_old
    \/ get_maintenance_windows
    \/ main_window
    \/ get_maint_window_info
    \/ get_maint_window_task
    \/ get_task_info
    \/ get_target_patch_tag
    \/ get_baseline_id
    \/ get_baseline_info
    \/ main_window_row
    \/ get_region_list
    \/ get_instances
    \/ main_instance
    \/ get_items
    \/ main_alarm

----------------------------------------------------------------------------
\* The items the pages a listing generator received hold, in the remote's order.
ListedBy(pages) ==
    LET all == Flatten(pages)
    IN  IF report = "mw" THEN [i \in 1..Len(all) |-> all[i].WindowId]
        ELSE IF report = "ssm" THEN Flatten([i \in 1..Len(all) |-> all[i].Instances])
        ELSE all

\* The latest response of g is the last page: it has no NextToken, or an empty one.
LastPage(g) ==
    /\ g.last_resp # <<>>
    /\ "NextToken" \in DOMAIN g.last_resp[1] => g.last_resp[1].NextToken = ""

\* C1 (pagination completeness): at every moment the items a paginating
\* generator has yielded, followed by those of its current page it has yet to
\* yield, are exactly the items of the pages it received, in page order and
\* within a page in the remote's order (none dropped, duplicated or moved);
\* it issued one call per page received (one more when its latest call raised);
\* and when its loop ends, the latest page is the remote's last one and every
\* item of every page has been yielded.
C1_Complete(g, listed) ==
    /\ g.yielded \o g.buf = listed
    /\ g.ncall = Len(g.pages) + (IF pc = "failed" /\ g.ncall > Len(g.pages) THEN 1 ELSE 0)
    /\ (g.ncall > 0 /\ Exhausted(g)) =>
          /\ LastPage(g)
          /\ g.yielded = listed
          /\ g.ncall = Len(g.pages)

C1_PaginationComplete ==
    /\ report # "alarm" => C1_Complete(gen, ListedBy(gen.pages))
    /\ C1_Complete(rgen, Flatten(rgen.pages))

\* get_resources ended after two pages of two and one resources, all three yielded.
C1_Witness ==
    /\ report = "cfn"
    /\ Exhausted(rgen)
    /\ Len(rgen.pages) = 2
    /\ Len(rgen.pages[1]) = 2
    /\ Len(rgen.yielded) = 3

\* C2 (cursor-following protocol): the first call of a generator carries no
\* NextToken; every later call carries exactly the NextToken of the response
\* to the generator's preceding call; and no call follows a response that has
\* no NextToken or an empty one.
C2_Follows(g, h) ==
    h.ncall = g.ncall + 1 =>
       /\ h.last_call # <<>>
       /\ IF g.ncall = 0
             THEN h.last_call[1].NextToken = <<>>
             ELSE /\ g.last_resp # <<>>
                  /\ "NextToken" \in DOMAIN g.last_resp[1]
                  /\ g.last_resp[1].NextToken # ""
                  /\ h.last_call[1].NextToken = <<g.last_resp[1].NextToken>>

C2_CursorFollowing ==
    [][/\ report # "alarm" => C2_Follows(gen, gen')
       /\ C2_Follows(rgen, rgen')]_vars

\* A third call that carries t2 after an earlier response gave t1.
C2_Witness ==
    /\ report = "mw"
    /\ gen.ncall = 3
    /\ gen.last_call[1].NextToken = <<"t2">>
    /\ gen.got = {"t1", "t2"}

\* C3 (cursor non-repetition): a generator whose latest response gave a
\* NextToken it had been given before stops: it issues no further call.
C3_RepeatedTokenIsFatal ==
    [][\A g \in {<<gen, gen'>>, <<rgen, rgen'>>} :
          g[1].stale => g[2].ncall # g[1].ncall + 1]_vars

\* Two responses gave t1 and the third call carries t1 again.
C3_Witness ==
    /\ report = "ssm"
    /\ gen.ncall = 3
    /\ Len(gen.pages) = 2
    /\ gen.stale
    /\ gen.got = {"t1"}
    /\ gen.last_call[1].NextToken = <<"t1">>

Issued(fn) == \E i \in 1..Len(calls) : calls[i].fn = fn

\* The fields i..j of the row written for the item are empty.
RowEmpty(i, j) == rows # <<>> => \A k \in i..j : rows[1][k] = ""

\* C5 (chain short-circuit): in the maintenance-window report, once a stage of
\* task ID -> target ID -> Patch Group -> baseline ID has resolved to the empty
\* string, no call of a later stage is issued for the window, every later
\* stage resolves to empty strings, the written row has empty strings there,
\* and nothing but the account lookup before writerow can stop the row.
C5_ChainShortCircuit ==
    (report = "mw" /\ item # <<>>) =>
       LET no_task == chain.task_id = ""
           no_target == chain.task_info[1] = ""
           no_tag == chain.patch_tag = ""
           no_baseline == chain.baseline_id = ""
       IN  /\ no_task =>
                /\ ~Issued("get_maintenance_window_task")
                /\ chain.task_info \in {<<Unset, Unset, Unset>>, <<"", "", "">>}
                /\ RowEmpty(8, 16)
           /\ no_target =>
                /\ ~Issued("describe_maintenance_window_targets")
                /\ chain.patch_tag \in {Unset, ""}
                /\ RowEmpty(8, 8)
           /\ (no_target \/ no_tag) =>
                /\ ~Issued("get_patch_baseline_for_patch_group")
                /\ chain.baseline_id \in {Unset, ""}
                /\ RowEmpty(11, 11)
           /\ (no_target \/ no_tag \/ no_baseline) =>
                /\ ~Issued("get_patch_baseline")
                /\ chain.baseline_info \in {<<Unset, Unset, Unset, Unset, Unset>>,
                                            <<"", "", "", "", "">>}
                /\ RowEmpty(12, 16)
                /\ pc = "failed" => at = "writerow"

\* A window with a task and a target but no Patch Group, its row written.
C5_Witness ==
    /\ report = "mw"
    /\ rows # <<>>
    /\ chain.task_id = "task-1"
    /\ chain.task_info[1] = "target-1"
    /\ chain.patch_tag = ""
    /\ Issued("describe_maintenance_window_targets")

\* C6 (step-boundary error containment): in the maintenance-window report a
\* task with no 'WindowTargetIds' entry, or a baseline with no PatchRules, no
\* MSRC_SEVERITY or no CLASSIFICATION filter, does not end the run: no
\* StopIteration or IndexError leaves get_task_info or get_baseline_info.
C6_StepBoundaryContainment ==
    report = "mw" =>
       ~(/\ pc = "failed"
         /\ at \in {"get_task_info", "get_baseline_info"}
         /\ err \in {"StopIteration", "IndexError"})

\* The actions of the alarm main is processing.
Actions == item[1].AlarmActions

C8_IndependentSNS ==
    (report = "alarm" /\ rows # <<>>) =>
       \A k \in {0, 1} :
          IF Len(Actions) > k /\ Contains(Actions[k + 1], "arn:aws:sns")
             THEN /\ rows[1][13 + 3 * k] = topic_name_of(TopicAttributes(Actions[k + 1]))
                  /\ rows[1][14 + 3 * k] = subscriptions_of(Actions[k + 1])
             ELSE /\ rows[1][13 + 3 * k] = ""
                  /\ rows[1][14 + 3 * k] = ""

\* The header row of the report.
Header ==
    CASE report = "cfn" -> cfn_header
      [] report = "cfn_old" -> cfn_old_header
      [] report = "mw" -> mw_header
      [] report = "ssm" -> ssm_header
      [] report = "alarm" -> alarm_header

\* The position of a field in the header.
Column(name) == CHOOSE i \in 1..Len(Header) : Header[i] = name

C10_RowPerResource ==
    (report = "cfn" /\ item # <<>>) =>
       /\ Len(rows) = Len(rgen.yielded)
       /\ Len(rows) + Len(rgen.buf) = Len(Flatten(rgen.pages))
       /\ \A i \in 1..Len(rows) :
             LET resource == Flatten(rgen.pages)[i]
             IN  /\ rows[i][3] = resource.LogicalResourceId
                 /\ rows[i][4] = resource.ResourceType
                 /\ rows[i][6] = item[1].StackId
                 /\ rows[i][5] = IF "PhysicalResourceId" \in DOMAIN resource
                                    THEN resource.PhysicalResourceId
                                    ELSE "[Deleted]"
       /\ pc = "failed" => err = "ClientError"

\* A stack with a deleted resource and a live one: two rows.
C10_Witness ==
    /\ report = "cfn"
    /\ Len(rows) = 2
    /\ rows[1][5] = "[Deleted]"
    /\ rows[2][5] = "bucket-1"

\* The latest call of g raised: it was issued and no page came back for it.
Raised(g) == g.ncall > Len(g.pages)

\* C11 (pagination error is fatal to the sequence): the step in which a paged
\* call raises ends the run with that ClientError (it leaves the generator and
\* its consumer), adds no page and yields nothing, and leaves no item to
\* yield; and no step follows it: the call is not issued again, no later page
\* is asked for and no further item is yielded.
C11_PaginationErrorFatal ==
    [][\A g \in {<<gen, gen'>>, <<rgen, rgen'>>} :
          /\ Raised(g[2]) =>
                /\ pc' = "failed"
                /\ err' = "ClientError"
                /\ g[2].buf = <<>>
                /\ g[2].pages = g[1].pages
                /\ g[2].yielded = g[1].yielded
          /\ Raised(g[1]) => g[2] = g[1]]_vars

\* The call for the second page of list_stacks raised, after a stack of the first.
C11_Witness ==
    /\ report = "cfn"
    /\ pc = "failed"
    /\ Raised(gen)
    /\ gen.ncall = 2
    /\ Len(gen.yielded) >= 1

\* C12 (region discovery failure is fatal): in the scripts that discover with
\* get_regions, a run that failed in the discovery has printed the error to
\* stderr, has no region, made no per-region client, listing call or lookup,
\* wrote no data row and ended by sys.exit(10) or the raised ClientError; the
\* discovery client's region is the default region, or us-east-1 when there is
\* none; and in a run whose discovery answered, the regions are those it
\* returned and every listing call is issued on the client of the region
\* being processed.
C12_DiscoveryFailureFatal ==
    report \in {"cfn", "cfn_old", "mw"} =>
       /\ (pc = "failed" /\ ri = 0) =>
             /\ stderr = <<"ERROR: ClientError">>
             /\ err = IF report = "mw" THEN "ClientError" ELSE "SystemExit(10)"
             /\ region_list = <<>>
             /\ gen.ncall = 0 /\ rgen.ncall = 0
             /\ ncalls = 0
             /\ calls = <<>>
             /\ rows = <<>>
             /\ \A i \in DOMAIN nrows : nrows[i] = 0
       /\ pc = "start" => ec2_region = ""
       /\ pc # "start" => ec2_region \in {"us-east-1", "eu-west-1"}
       /\ ri >= 1 =>
             /\ region_list = <<"eu-west-1", "us-east-1">>
             /\ stderr = <<>>
             /\ gen.last_call # <<>> => gen.last_call[1].client = region_list[ri]
             /\ (item # <<>> /\ rgen.last_call # <<>>) =>
                   rgen.last_call[1].client = region_list[ri]

\* The discovery, made on the fallback region's client, failed.
C12_Witness ==
    /\ report = "cfn"
    /\ pc = "failed"
    /\ ri = 0
    /\ ec2_region = "us-east-1"
    /\ stderr # <<>>

\* C13 (missing optional fields never error): an instance with no Tags or no
\* 'Name' tag has an empty Name field and one with no Platform an empty
\* EC2Platform field; an alarm with no AlarmDescription has an empty
\* Description field; a maintenance window with no ScheduleTimezone has an
\* empty MW TZ field; in each case the other fields of the row are the
\* parent's own, and nothing but a failing remote call (a ClientError) stops
\* the row.
C13_MissingOptionalFields ==
    /\ (report = "ssm" /\ item # <<>>) =>
          LET instance == item[1]
          IN  /\ pc = "failed" => err = "ClientError"
              /\ rows # <<>> =>
                    /\ Len(rows[1]) = 9
                    /\ rows[1][1] = region
                    /\ rows[1][2] = instance.InstanceId
                    /\ "Tags" \notin DOMAIN instance => rows[1][3] = ""
                    /\ ("Tags" \in DOMAIN instance
                        /\ \A i \in 1..Len(instance.Tags) : instance.Tags[i].Key # "Name") =>
                          rows[1][3] = ""
                    /\ rows[1][4] = IF "Platform" \in DOMAIN instance
                                       THEN instance.Platform ELSE ""
    /\ (report = "alarm" /\ item # <<>>) =>
          LET alarm == item[1]
          IN  /\ calls = <<>> => rows # <<>>
              /\ rows # <<>> =>
                    /\ Len(rows[1]) = 17
                    /\ rows[1][3] = alarm.AlarmName
                    /\ rows[1][4] = IF "AlarmDescription" \in DOMAIN alarm
                                       THEN alarm.AlarmDescription ELSE ""
                    /\ rows[1][5] = alarm.MetricName
                    /\ rows[1][8] = alarm.Threshold
    /\ (report = "mw" /\ item # <<>>) =>
          /\ (pc = "failed" /\ at = "get_maint_window_info") => err = "ClientError"
          /\ at # "get_maint_window_info" =>
                chain.maint_window_info \in
                   {<<"patching", "cron(0 3 ? * SUN *)", tz>> : tz \in {"UTC", ""}}
          /\ rows # <<>> =>
                /\ Len(rows[1]) = 16
                /\ rows[1][3] = item[1]
                /\ <<rows[1][4], rows[1][5], rows[1][6]>> = chain.maint_window_info

\* The row of an instance with no tag and no Platform.
C13_Witness ==
    /\ report = "ssm"
    /\ rows # <<>>
    /\ DOMAIN item[1] = {"InstanceId"}
    /\ rows[1][2] = "i-2"
    /\ rows[1][3] = ""
    /\ rows[1][4] = ""

\* A call of generator h (g before the step) that carries a NextToken follows
\* an earlier call of the same generator, of the same kind, on the same client
\* and with the same argument, whose response gave that token.
C14_Scoped(g, h) ==
    (h.ncall = g.ncall + 1 /\ h.last_call[1].NextToken # <<>>) =>
       /\ g.ncall > 0
       /\ g.last_call # <<>>
       /\ h.last_call[1].fn = g.last_call[1].fn
       /\ h.last_call[1].client = g.last_call[1].client
       /\ h.last_call[1].arg = g.last_call[1].arg
       /\ g.last_resp # <<>>
       /\ "NextToken" \in DOMAIN g.last_resp[1]
       /\ h.last_call[1].NextToken = <<g.last_resp[1].NextToken>>

\* C14 (cursor scoping): in the stack-resource report every call that carries
\* a NextToken is of the same kind, on the same region client and with the
\* same StackStatusFilter or StackName as the call whose response gave the
\* token; get_stacks only calls list_stacks and get_resources only
\* list_stack_resources for the stack main is processing, so no token of one
\* listing or stack is sent to another.
C14_CursorScoping ==
    [][report = "cfn" =>
          /\ C14_Scoped(gen, gen')
          /\ C14_Scoped(rgen, rgen')
          /\ gen'.ncall = gen.ncall + 1 =>
                /\ gen'.last_call[1].fn = "list_stacks"
                /\ gen'.last_call[1].arg = "StackStatusFilter"
                /\ gen'.last_call[1].client = region'
          /\ rgen'.ncall = rgen.ncall + 1 =>
                /\ rgen'.last_call[1].fn = "list_stack_resources"
                /\ rgen'.last_call[1].arg = item'[1].StackId
                /\ rgen'.last_call[1].client = region']_vars

\* get_resources of stack s2 follows its own t1 while get_stacks, with s1 of
\* the same page still to come, holds t2.
C14_Witness ==
    /\ report = "cfn"
    /\ rgen.ncall = 2
    /\ rgen.last_call[1].NextToken = <<"t1">>
    /\ rgen.last_call[1].arg = "arn:stack/s2"
    /\ gen.buf # <<>>
    /\ gen.next_token = "t2"

\* C15 (one row per instance under partial enrichment): in the instance report
\* the rows written in a region are as many as the instances get_instances
\* has yielded there (one fewer only when the SSM lookup for the latest raised
\* and ended the run); the instance being processed has exactly one row, whose
\* five SSM fields are empty strings when the lookup returned an empty
\* InstanceInformationList and otherwise the PingStatus, AgentVersion,
\* PlatformType, PlatformName and PlatformVersion of its first entry.
C15_RowPerInstance ==
    (report = "ssm" /\ ri >= 1) =>
       /\ nrows[ri] = Len(gen.yielded) - (IF pc = "failed" /\ item # <<>> THEN 1 ELSE 0)
       /\ (item # <<>> /\ pc # "failed") => Len(rows) = 1
       /\ (item # <<>> /\ pc = "failed") =>
             /\ rows = <<>>
             /\ err = "ClientError"
       /\ rows # <<>> =>
             LET ssm_information == chain.response.InstanceInformationList
                 row == rows[1]
             IN  /\ row[2] = item[1].InstanceId
                 /\ IF ssm_information = <<>>
                       THEN \A j \in 5..9 : row[j] = ""
                       ELSE /\ row[5] = ssm_information[1].PingStatus
                            /\ row[6] = ssm_information[1].AgentVersion
                            /\ row[7] = ssm_information[1].PlatformType
                            /\ row[8] = ssm_information[1].PlatformName
                            /\ row[9] = ssm_information[1].PlatformVersion

\* The second instance of a region, for which SSM returned two entries.
C15_Witness ==
    /\ report = "ssm"
    /\ rows # <<>>
    /\ Len(gen.yielded) = 2
    /\ nrows[ri] = 2
    /\ Len(chain.response.InstanceInformationList) = 2
    /\ rows[1][6] = "3.0.2"

\* C16 (lazy page advance): a generator issues a call only when every item of
\* the pages it has received has been yielded and its consumer is back at its
\* for statement (the row of the item before is written); in the
\* stack-resource report main takes the next stack, and get_stacks asks for
\* the next page, only when get_resources of the stack before has ended and
\* every resource it was given has its row.
C16_LazyPageAdvance ==
    [][/\ gen'.ncall = gen.ncall + 1 =>
             /\ gen.buf = <<>>
             /\ Len(gen.yielded) = Len(ListedBy(gen.pages))
             /\ at = "list"
             /\ Exhausted(rgen)
             /\ (report \in {"mw", "ssm", "alarm"} /\ item # <<>>) => Len(rows) = 1
             /\ (report = "cfn" /\ item # <<>>) => Len(rows) = Len(Flatten(rgen.pages))
       /\ rgen'.ncall = rgen.ncall + 1 =>
             /\ rgen.buf = <<>>
             /\ Len(rgen.yielded) = Len(Flatten(rgen.pages))
             /\ Len(rows) = Len(rgen.yielded)
       /\ (report = "cfn" /\ gen'.yielded # gen.yielded /\ item # <<>>) =>
             /\ Exhausted(rgen)
             /\ Len(rows) = Len(Flatten(rgen.pages))]_vars

\* The second page of list_stacks is asked for after the stack of the first
\* page got its resource row.
C16_Witness ==
    /\ report = "cfn"
    /\ gen.ncall = 2
    /\ Len(gen.pages) = 2
    /\ Len(gen.pages[1]) = 1
    /\ nrows[ri] = 1

\* C17 (SNS lookups only for SNS actions): every SNS call issued for an alarm
\* has as its TopicArn one of the alarm's first two actions that contains
\* "arn:aws:sns"; none is issued for an alarm whose first two actions are both
\* not SNS.
C17_SnsCallsOnlyForSns ==
    (report = "alarm" /\ item # <<>>) =>
       LET sns == {k \in 1..2 : /\ k <= Len(Actions)
                                /\ Contains(Actions[k], "arn:aws:sns")}
       IN  /\ \A i \in 1..Len(calls) :
                 /\ calls[i].fn \in {"get_topic_attributes", "list_subscriptions_by_topic"}
                 /\ \E k \in sns : calls[i].arg = Actions[k]
           /\ sns = {} => calls = <<>>

\* C18 (missing Patch Group tag degrades to empty): get_target_patch_tag
\* raises nothing of its own: when the run fails there, it is by the
\* ClientError of the target lookup; and a window whose first target carries
\* no 'tag:Patch Group' entry gets its row, with empty Patch Group and
\* baseline fields.
C18_MissingPatchGroupEmpty ==
    (report = "mw" /\ pc = "failed" /\ at = "get_target_patch_tag") =>
       err = "ClientError"

Spec == Init /\ [][Next]_vars
====
